---- MODULE Spec2Model ----
(***************************************************************************)
(* A model of cromulence's feedback matcher (cromulence/wordle/guess.py)   *)
(* and of the candidate set built on it (cromulence/wordle/dictionary.py). *)
(*                                                                         *)
(* A word is a sequence of one-character strings; a Guess is its _parts,   *)
(* a sequence of <<character, response>> pairs.  Sequences are 1-based,    *)
(* so position i of the source is position i+1 here.                       *)
(***************************************************************************)
EXTENDS Integers, Sequences, FiniteSets, TLC

VARIABLES
    parts,                   \* Guess._parts of the guess under test (<<>> before construction)
    word,                    \* the argument of Guess.match, as the caller passed it
    character_matched_list,  \* match's local list when match returned
    match_result,            \* what Guess.match returned
    word_list,               \* Dictionary._word_list of the session's dictionary
    raw_words,               \* the words argument that dictionary was constructed from
    already_ranked_arg,      \* the already_ranked argument it was constructed with
    pruned,                  \* _word_list of the Dictionary the last prune call returned
    word_score,              \* what _score_word returned for word (0 before any call)
    answer,                  \* the game's hidden answer, which the program never sees
    call_args,               \* the arguments of the last call, or the user's last input
    raised,                  \* the exception that call raised, "none" if it returned
    dicts,                   \* the Quordle host's dicts, as their four _word_lists
    current_guess,           \* the hosts' current_guess (None before the first)
    quordle_word_size,       \* the Quordle host's word_size
    rounds,                  \* rounds played whose response was not all CORRECT
    pc                       \* matcher: "new" -> "guess" -> "matched"; session: "play";
                             \* dictionary: "constructed", "guess_ready", "pruned", "filtered"

\* The state of the calls under test and of the hosts.
host_vars == <<call_args, raised, dicts, current_guess, quordle_word_size, rounds>>

vars ==
    <<parts, word, character_matched_list, match_result, word_list, raw_words,
      already_ranked_arg, pruned, word_score, answer, host_vars, pc>>

----------------------------------------------------------------------------
(* GameResponse *)

INCORRECT == "INCORRECT"
ELSEWHERE == "ELSEWHERE"
CORRECT == "CORRECT"
GameResponse == {INCORRECT, ELSEWHERE, CORRECT}

----------------------------------------------------------------------------
(* str.upper() on the characters the program is given *)

Alphabet ==
    <<"A", "B", "C", "D", "E", "F", "G", "H", "I", "J", "K", "L", "M",
      "N", "O", "P", "Q", "R", "S", "T", "U", "V", "W", "X", "Y", "Z">>

LowerAlphabet ==
    <<"a", "b", "c", "d", "e", "f", "g", "h", "i", "j", "k", "l", "m",
      "n", "o", "p", "q", "r", "s", "t", "u", "v", "w", "x", "y", "z">>

\* str.upper() of the strings a Guess is given as characters: a lower-case
\* letter becomes its capital, the sharp s becomes SS, a string of several
\* letters becomes their capitals, and any other string is kept.
UpperOf ==
    [ch \in {LowerAlphabet[k] : k \in 1..26} |->
        Alphabet[CHOOSE k \in 1..26 : LowerAlphabet[k] = ch]]
    @@ ("ß" :> "SS")
    @@ ("ab" :> "AB")
    @@ ("this_is_not_a_single_character" :> "THIS_IS_NOT_A_SINGLE_CHARACTER")

upper_char(ch) == IF ch \in DOMAIN UpperOf THEN UpperOf[ch] ELSE ch

upper(w) == [k \in 1..Len(w) |-> upper_char(w[k])]

----------------------------------------------------------------------------
(* Guess *)

\* Guess.__init__: every character upper-cased, the response kept.
Guess(raw_parts) ==
    [k \in 1..Len(raw_parts) |-> <<upper_char(raw_parts[k][1]), raw_parts[k][2]>>]

\* Guess.__init__ raises ValueError: a stored character is not one character
\* long.
Guess_raises(raw_parts) ==
    \E k \in 1..Len(raw_parts) : Len(Guess(raw_parts)[k][1]) # 1

\* Guess.__str__
GuessStr(p) == [k \in 1..Len(p) |-> p[k][1]]

\* Guess._match_correct: the loop over self._parts from position i on.
RECURSIVE _match_correct_from(_, _, _, _)
_match_correct_from(p, w, cml, i) ==
    IF i > Len(p) THEN [result |-> TRUE, list |-> cml]
    ELSE IF p[i][2] = CORRECT
         THEN IF w[i] # p[i][1]
              THEN [result |-> FALSE, list |-> cml]
              ELSE _match_correct_from(p, w, [cml EXCEPT ![i] = TRUE], i + 1)
         ELSE _match_correct_from(p, w, cml, i + 1)

\* Guess._match_correct: the list passed in is discarded for a fresh one.
_match_correct(p, w, cml) ==
    _match_correct_from(p, w, [k \in 1..Len(w) |-> FALSE], 1)

\* As elsewhere_slot_ok, but a slot that is already matched may be used again.
elsewhere_slot_ok_reuse(p, w, cml, ch, j) ==
    /\ w[j] = ch
    /\ ~(p[j][1] = ch /\ p[j][2] # CORRECT)

\* As elsewhere_slot_ok, but without the test on the guess's own entry at j.
elsewhere_slot_ok_any(p, w, cml, ch, j) ==
    /\ ~cml[j]
    /\ w[j] = ch

\* Guess._match_elsewhere, the test on slot j of the word for guess character ch:
\* the slot is skipped when it is already matched, holds another character, or
\* the guess has ch at j with a response other than CORRECT.
elsewhere_slot_ok(p, w, cml, ch, j) ==
    /\ ~cml[j]
    /\ w[j] = ch
    /\ ~(p[j][1] = ch /\ p[j][2] # CORRECT)

\* Guess._match_elsewhere, the inner loop over the word from slot j on: every
\* slot that passes the test is marked; the loop has no break.
RECURSIVE elsewhere_scan(_, _, _, _, _, _)
elsewhere_scan(p, w, cml, ch, j, match_found) ==
    IF j > Len(w) THEN [found |-> match_found, list |-> cml]
    ELSE IF elsewhere_slot_ok(p, w, cml, ch, j)
         THEN elsewhere_scan(p, w, [cml EXCEPT ![j] = TRUE], ch, j + 1, TRUE)
         ELSE elsewhere_scan(p, w, cml, ch, j + 1, match_found)

\* As _match_elsewhere_from, but the word may hold the character at position i.
RECURSIVE _match_elsewhere_from_any_place(_, _, _, _)
_match_elsewhere_from_any_place(p, w, cml, i) ==
    IF i > Len(p) THEN [result |-> TRUE, list |-> cml]
    ELSE IF p[i][2] = ELSEWHERE
         THEN LET scan == elsewhere_scan(p, w, cml, p[i][1], 1, FALSE)
              IN  IF ~scan.found
                  THEN [result |-> FALSE, list |-> scan.list]
                  ELSE _match_elsewhere_from_any_place(p, w, scan.list, i + 1)
         ELSE _match_elsewhere_from_any_place(p, w, cml, i + 1)

\* Guess._match_elsewhere: the outer loop over self._parts from position i on.
RECURSIVE _match_elsewhere_from(_, _, _, _)
_match_elsewhere_from(p, w, cml, i) ==
    IF i > Len(p) THEN [result |-> TRUE, list |-> cml]
    ELSE IF p[i][2] = ELSEWHERE
         THEN IF w[i] = p[i][1]
              THEN [result |-> FALSE, list |-> cml]
              ELSE LET scan == elsewhere_scan(p, w, cml, p[i][1], 1, FALSE)
                   IN  IF ~scan.found
                       THEN [result |-> FALSE, list |-> scan.list]
                       ELSE _match_elsewhere_from(p, w, scan.list, i + 1)
         ELSE _match_elsewhere_from(p, w, cml, i + 1)

_match_elsewhere(p, w, cml) == _match_elsewhere_from(p, w, cml, 1)

\* Guess._match_incorrect: the loop over self._parts from position i on.
RECURSIVE _match_incorrect_from(_, _, _, _)
_match_incorrect_from(p, w, cml, i) ==
    IF i > Len(p) THEN [result |-> TRUE, list |-> cml]
    ELSE IF p[i][2] = INCORRECT
         THEN IF \E j \in 1..Len(w) : w[j] = p[i][1] /\ ~cml[j]
              THEN [result |-> FALSE, list |-> cml]
              ELSE _match_incorrect_from(p, w, [cml EXCEPT ![i] = TRUE], i + 1)
         ELSE _match_incorrect_from(p, w, cml, i + 1)

\* A third pass that rejects nothing.
_match_incorrect_never_rejects(p, w, cml) == [result |-> TRUE, list |-> cml]
_match_incorrect(p, w, cml) == _match_incorrect_from(p, w, cml, 1)

\* As match_run, but the word is matched as given, not upper-cased.
match_run_as_given(p, raw_word) ==
    LET w == raw_word
        r1 == _match_correct(p, w, [k \in 1..Len(w) |-> FALSE])
        r2 == _match_elsewhere(p, w, r1.list)
        r3 == _match_incorrect(p, w, r2.list)
    IN  IF ~r1.result THEN r1
        ELSE IF ~r2.result THEN r2
        ELSE r3

\* Guess.match: the word upper-cased, then the three match functions in order,
\* returning False at the first that fails.
match_run(p, raw_word) ==
    LET w == upper(raw_word)
        r1 == _match_correct(p, w, [k \in 1..Len(w) |-> FALSE])
        r2 == _match_elsewhere(p, w, r1.list)
        r3 == _match_incorrect(p, w, r2.list)
    IN  IF ~r1.result THEN r1
        ELSE IF ~r2.result THEN r2
        ELSE r3

match(p, raw_word) == match_run(p, raw_word).result

----------------------------------------------------------------------------
(* Dictionary *)

\* _score_word's table of letter scores, A to Z.
scores ==
    <<1, 3, 3, 2, 1, 4, 2, 4, 1, 8, 5, 1, 3,
      1, 1, 3, 10, 1, 1, 1, 1, 4, 4, 8, 4, 10>>

\* ord(ch) - ord("A"), as a 1-based index into the table.
array_index(ch) == CHOOSE k \in 1..26 : Alphabet[k] = ch

\* The loop without the increment of the letter's table entry.
RECURSIVE _score_word_from_fixed_table(_, _, _, _)
_score_word_from_fixed_table(w, table, final_score, i) ==
    IF i > Len(w) THEN final_score
    ELSE _score_word_from_fixed_table(w, table, final_score + table[array_index(w[i])],
                                      i + 1)

\* _score_word: the loop over the word from position i on, with the table as it
\* stands and the score so far.
RECURSIVE _score_word_from(_, _, _, _)
_score_word_from(w, table, final_score, i) ==
    IF i > Len(w) THEN final_score
    ELSE LET k == array_index(w[i])
         IN  _score_word_from(w, [table EXCEPT ![k] = table[k] + 1],
                              final_score + table[k], i + 1)

_score_word(w) == _score_word_from(w, scores, 0, 1)

\* An insertion that puts the new word before the words of equal score.
RECURSIVE sorted_insert_before_equal(_, _)
sorted_insert_before_equal(ranked, w) ==
    IF ranked = <<>> THEN <<w>>
    ELSE IF _score_word(Head(ranked)) < _score_word(w)
         THEN <<Head(ranked)>> \o sorted_insert_before_equal(Tail(ranked), w)
         ELSE <<w>> \o ranked

\* sorted(..., key=score), one insertion: the new word goes after every word
\* whose score is not greater, so words of equal score keep their order.
RECURSIVE sorted_insert(_, _)
sorted_insert(ranked, w) ==
    IF ranked = <<>> THEN <<w>>
    ELSE IF _score_word(Head(ranked)) <= _score_word(w)
         THEN <<Head(ranked)>> \o sorted_insert(Tail(ranked), w)
         ELSE <<w>> \o ranked

RECURSIVE sorted_by_score(_)
sorted_by_score(ws) ==
    IF ws = <<>> THEN <<>>
    ELSE sorted_insert(sorted_by_score(SubSeq(ws, 1, Len(ws) - 1)), ws[Len(ws)])

\* The words upper-cased and left in the order given.
_rank_wordlist_unsorted(words) == [k \in 1..Len(words) |-> upper(words[k])]

\* _rank_wordlist: the words upper-cased, then sorted by score.
_rank_wordlist(words) ==
    sorted_by_score([k \in 1..Len(words) |-> upper(words[k])])

\* A constructor that ranks whatever the flag says.
Dictionary_always_ranked(words, already_ranked) == _rank_wordlist(words)

\* Dictionary.__init__
Dictionary(words, already_ranked) ==
    IF already_ranked
    THEN [k \in 1..Len(words) |-> upper(words[k])]
    ELSE _rank_wordlist(words)

\* Dictionary.__len__
__len__(wl) == Len(wl)

\* Dictionary.word_size
word_size(wl) == IF wl # <<>> THEN Len(wl[1]) ELSE 0

\* Python's None, as a value that is no word: a word is a sequence of
\* one-character strings, the empty word "" is <<>>.
None == <<"None">>

\* A most likely word that is the empty string when there is no word.
get_most_likely_word_or_empty(wl) == IF wl # <<>> THEN wl[1] ELSE <<>>

\* Dictionary.get_most_likely_word
get_most_likely_word(wl) == IF wl # <<>> THEN wl[1] ELSE None

\* A filter that yields every matching word twice.
RECURSIVE filter_match_twice(_, _)
filter_match_twice(p, wl) ==
    IF wl = <<>> THEN <<>>
    ELSE IF match(p, Head(wl))
         THEN <<Head(wl), Head(wl)>> \o filter_match_twice(p, Tail(wl))
         ELSE filter_match_twice(p, Tail(wl))

\* A filter that yields the matching words last to first.
RECURSIVE filter_match_reversed(_, _)
filter_match_reversed(p, wl) ==
    IF wl = <<>> THEN <<>>
    ELSE IF match(p, Head(wl))
         THEN filter_match_reversed(p, Tail(wl)) \o <<Head(wl)>>
         ELSE filter_match_reversed(p, Tail(wl))

\* filter(guess.match, self._word_list)
RECURSIVE filter_match(_, _)
filter_match(p, wl) ==
    IF wl = <<>> THEN <<>>
    ELSE IF match(p, Head(wl))
         THEN <<Head(wl)>> \o filter_match(p, Tail(wl))
         ELSE filter_match(p, Tail(wl))

\* A prune that also puts the guessed word at the head of the list.
prune_with_guess_word(wl, p) == Dictionary(<<GuessStr(p)>> \o filter_match(p, wl), TRUE)

\* A prune that ranks the words it keeps.
prune_reranked(wl, p) == Dictionary(filter_match(p, wl), FALSE)

\* Dictionary.prune: the list of the Dictionary it returns.
prune(wl, p) == Dictionary(filter_match(p, wl), TRUE)

\* A prune that filters the receiver's own list and returns it.
prune_call_in_place(self_word_list, guess_parts) ==
    [self   |-> prune(self_word_list, guess_parts),
     guess  |-> guess_parts,
     result |-> prune(self_word_list, guess_parts)]

\* One call self.prune(guess) as the caller sees it: the receiver's list and
\* the guess's parts after the call, and the list of the returned Dictionary.
\* The method assigns to neither self._word_list nor guess._parts.
prune_call(self_word_list, guess_parts) ==
    [self   |-> self_word_list,
     guess  |-> guess_parts,
     result |-> prune(self_word_list, guess_parts)]

\* An official that refuses None alone.
official_refuses_none(downloaded) ==
    IF downloaded = None
    THEN [raised |-> "RuntimeError", word_list |-> None]
    ELSE [raised |-> "none", word_list |-> Dictionary(downloaded, FALSE)]

\* Dictionary.official(download_fun), given what download_fun returns: the
\* exception raised, if any, and the list of the Dictionary returned.  None
\* and the empty list are the values that are not true.
official(downloaded) ==
    IF downloaded = None \/ downloaded = <<>>
    THEN [raised |-> "RuntimeError", word_list |-> None]
    ELSE [raised |-> "none", word_list |-> Dictionary(downloaded, FALSE)]

----------------------------------------------------------------------------
(* The inputs: every guess and word of ShortLen characters over ShortLetters *)
(* and of LongLen characters over LongLetters, and the guesses and words of  *)
(* test/test_guess.py.                                                       *)

ShortLen == 3
ShortLetters == {"A", "B", "C"}
LongLen == 4
LongLetters == {"A", "B"}

WordsOver(letters, n) == [1..n -> letters]

LowerOf ==
    [ch \in {Alphabet[k] : k \in 1..26} |->
        LowerAlphabet[CHOOSE k \in 1..26 : Alphabet[k] = ch]]

lower_char(ch) == IF ch \in DOMAIN LowerOf THEN LowerOf[ch] ELSE ch

lower(w) == [k \in 1..Len(w) |-> lower_char(w[k])]

UpperWords == WordsOver(ShortLetters, ShortLen) \cup WordsOver(LongLetters, LongLen)

Pair(g, rs) == [k \in 1..Len(g) |-> <<g[k], rs[k]>>]

TestCases ==
    { [guess |-> <<"f", "o", "o">>, responses |-> <<CORRECT, CORRECT, CORRECT>>,
       word |-> <<"f", "O", "o">>],
      [guess |-> <<"f", "o", "o">>, responses |-> <<ELSEWHERE, CORRECT, ELSEWHERE>>,
       word |-> <<"o", "o", "f">>],
      [guess |-> <<"f", "o", "o">>, responses |-> <<CORRECT, CORRECT, CORRECT>>,
       word |-> <<"w", "o", "o">>],
      [guess |-> <<"f", "o", "o">>, responses |-> <<ELSEWHERE, CORRECT, CORRECT>>,
       word |-> <<"w", "o", "o">>],
      [guess |-> <<"f", "o", "o">>, responses |-> <<ELSEWHERE, ELSEWHERE, INCORRECT>>,
       word |-> <<"o", "f", "f">>],
      [guess |-> <<"g", "r", "e", "e", "n">>,
       responses |-> <<INCORRECT, ELSEWHERE, ELSEWHERE, INCORRECT, INCORRECT>>,
       word |-> <<"a", "c", "r", "u", "e">>],
      [guess |-> <<"a", "c", "r", "u", "e">>,
       responses |-> <<INCORRECT, INCORRECT, ELSEWHERE, INCORRECT, ELSEWHERE>>,
       word |-> <<"g", "r", "e", "e", "n">>],
      [guess |-> <<"a", "b", "c", "d", "e">>,
       responses |-> <<ELSEWHERE, ELSEWHERE, ELSEWHERE, ELSEWHERE, ELSEWHERE>>,
       word |-> <<"e", "c", "a", "b", "d">>],
      [guess |-> <<"a", "b", "c", "d", "e">>,
       responses |-> <<ELSEWHERE, ELSEWHERE, ELSEWHERE, ELSEWHERE, ELSEWHERE>>,
       word |-> <<"a", "a", "a", "a", "a">>],
      [guess |-> <<"f", "o", "o">>, responses |-> <<CORRECT, ELSEWHERE, INCORRECT>>,
       word |-> <<"f", "i", "o">>],
      [guess |-> <<"w", "o", "r", "r", "y">>,
       responses |-> <<INCORRECT, ELSEWHERE, ELSEWHERE, ELSEWHERE, INCORRECT>>,
       word |-> <<"o", "r", "d", "e", "r">>],
      [guess |-> <<"w", "o", "r", "r", "y">>,
       responses |-> <<INCORRECT, ELSEWHERE, ELSEWHERE, ELSEWHERE, INCORRECT>>,
       word |-> <<"o", "d", "o", "u", "r">>] }

\* The words a caller may pass to match: the upper-case words, the words of
\* ShortLen characters over LongLetters in lower case, and the tests' words.
RawWords ==
    UpperWords \cup {lower(w) : w \in WordsOver(LongLetters, ShortLen)}
               \cup {t.word : t \in TestCases}

\* The words a caller may build a Guess from, in upper and in lower case.
RawGuessWords == UpperWords \cup {lower(w) : w \in UpperWords}

----------------------------------------------------------------------------
(* The matcher as a state machine: a Guess is constructed, then asked to    *)
(* match one word of its own length.                                        *)

\* No call under test has been made and no host is running.
HostIdle ==
    /\ call_args = <<>>
    /\ raised = "none"
    /\ dicts = <<>>
    /\ current_guess = None
    /\ quordle_word_size = 0
    /\ rounds = 0

Init ==
    /\ parts = <<>>
    /\ word = <<>>
    /\ character_matched_list = <<>>
    /\ match_result = FALSE
    /\ word_list = <<>>
    /\ raw_words = <<>>
    /\ already_ranked_arg = FALSE
    /\ pruned = <<>>
    /\ word_score = 0
    /\ HostIdle
    /\ answer = <<>>
    /\ pc = "new"

\* Guess(raw_parts)
NewGuess ==
    /\ pc = "new"
    /\ \/ \E g \in RawGuessWords : \E rs \in [1..Len(g) -> GameResponse] :
             parts' = Guess(Pair(g, rs))
       \/ \E t \in TestCases : parts' = Guess(Pair(t.guess, t.responses))
    /\ pc' = "guess"
    /\ UNCHANGED <<word, character_matched_list, match_result, word_list, raw_words,
                   already_ranked_arg, pruned, word_score, answer,
                   host_vars>>

\* guess.match(raw_word)
Match ==
    /\ pc = "guess"
    /\ \E raw_word \in RawWords :
         /\ Len(raw_word) = Len(parts)
         /\ LET r == match_run(parts, raw_word)
            IN  /\ word' = raw_word
                /\ match_result' = r.result
                /\ character_matched_list' = r.list
    /\ pc' = "matched"
    /\ UNCHANGED <<parts, word_list, raw_words, already_ranked_arg, pruned,
                   word_score, answer,
                   host_vars>>

Next == NewGuess \/ Match

Spec == Init /\ [][Next]_vars

----------------------------------------------------------------------------
(* A session against a game: the dictionary holds every word of LongLen     *)
(* characters over LongLetters, the game holds one of them as its answer,   *)
(* and each round the dictionary is pruned by the game's response to a      *)
(* guess word (cromulence_wordle.py: filter_dict).                          *)

\* The response of a Wordle game to guess g when the answer is a: a character
\* in its exact place is CORRECT; of the others, left to right, a character is
\* ELSEWHERE while occurrences of it that are not CORRECT remain in the
\* answer, and INCORRECT after that.
GameFeedback(g, a) ==
    [i \in 1..Len(g) |->
        IF g[i] = a[i] THEN CORRECT
        ELSE IF Cardinality({j \in 1..(i - 1) : g[j] = g[i] /\ g[j] # a[j]})
                  < Cardinality({j \in 1..Len(a) : a[j] = g[i] /\ g[j] # a[j]})
             THEN ELSEWHERE
             ELSE INCORRECT]

GameWords == WordsOver(LongLetters, LongLen)

\* The downloaded word list: the game's words in some fixed order.
RECURSIVE SeqOf(_)
SeqOf(S) ==
    IF S = {} THEN <<>>
    ELSE LET x == CHOOSE y \in S : TRUE IN <<x>> \o SeqOf(S \ {x})

GameInit ==
    /\ parts = <<>>
    /\ word = <<>>
    /\ character_matched_list = <<>>
    /\ match_result = FALSE
    /\ raw_words = SeqOf(GameWords)
    /\ already_ranked_arg = FALSE
    /\ word_list = Dictionary(raw_words, already_ranked_arg)
    /\ pruned = <<>>
    /\ word_score = 0
    /\ HostIdle
    /\ answer \in GameWords
    /\ pc = "play"

\* filter_dict(word, d): the guess is built from the word and the game's
\* response, and the dictionary is replaced by its prune.
Round ==
    /\ pc = "play"
    /\ \E g \in GameWords :
         /\ parts' = Guess(Pair(g, GameFeedback(g, answer)))
         /\ word_list' = prune(word_list, parts')
    /\ UNCHANGED <<word, character_matched_list, match_result, raw_words,
                   already_ranked_arg, pruned, word_score, answer, pc,
                   host_vars>>

GameNext == Round

GameSpec == GameInit /\ [][GameNext]_vars

----------------------------------------------------------------------------
(* The dictionary by itself: a Dictionary is constructed from a word list,  *)
(* ranked or taken as given, and then pruned by guesses, either keeping the *)
(* receiver (d2 = d.prune(guess), as the tests do) or replacing it          *)
(* (d = d.prune(guess), as the hosts do).                                   *)

\* The longest word list a dictionary is constructed from.
DictMaxWords == 3

\* Two-letter words: AA scores 3, AB scores 4 and so does "ba", which is BA
\* once in upper case.
DictWords ==
    {<<"A", "A">>, <<"A", "B">>, <<"b", "a">>}

\* The word list of test_dictionary.py.
ABC_ABA_XYZ == <<<<"A", "B", "C">>, <<"A", "B", "A">>, <<"X", "Y", "Z">>>>

\* The orders a list of n elements can be put in.
Orders(n) ==
    {f \in [1..n -> 1..n] : \A a, b \in 1..n : f[a] = f[b] => a = b}

Reordered(ws, f) == [k \in 1..Len(ws) |-> ws[f[k]]]

\* The word lists a dictionary is constructed from: every list of at most
\* DictMaxWords of the two-letter words, and the tests' list in every order.
WordLists ==
    UNION {[1..n -> DictWords] : n \in 0..DictMaxWords}
    \cup {Reordered(ABC_ABA_XYZ, f) : f \in Orders(Len(ABC_ABA_XYZ))}

\* The guess of test_prune.
BCD_YBB == Pair(<<"B", "C", "D">>, <<ELSEWHERE, INCORRECT, INCORRECT>>)

\* The letters of the two-letter guesses: one the words have, and one they
\* have not, so that a guess can keep several different words.
DictGuessLetters == {"A", "C"}

\* The guesses a dictionary is pruned by: every response to every two-letter
\* word over DictGuessLetters, three-letter guesses for the tests' list, and
\* guesses of no letter and of one letter.
DictGuesses ==
    {Pair(g, rs) : g \in [1..2 -> DictGuessLetters], rs \in [1..2 -> GameResponse]}
    \cup {BCD_YBB,
          Pair(<<"a", "b", "a">>, <<CORRECT, CORRECT, CORRECT>>),
          Pair(<<"D", "B", "D">>, <<INCORRECT, CORRECT, INCORRECT>>),
          <<>>,
          Pair(<<"A">>, <<CORRECT>>),
          Pair(<<"B">>, <<INCORRECT>>)}

\* Dictionary(words, already_ranked)
DictInit ==
    /\ raw_words \in WordLists
    /\ already_ranked_arg \in BOOLEAN
    /\ word_list = Dictionary(raw_words, already_ranked_arg)
    /\ parts = <<>>
    /\ pruned = <<>>
    /\ word = <<>>
    /\ character_matched_list = <<>>
    /\ match_result = FALSE
    /\ word_score = 0
    /\ HostIdle
    /\ answer = <<>>
    /\ pc = "constructed"

\* Guess(raw_parts) for the next prune.  A guess is as long as the
\* dictionary's words; an empty dictionary is pruned by guesses of any length.
DictNewGuess ==
    /\ pc \in {"constructed", "pruned", "filtered"}
    /\ \E raw_parts \in DictGuesses :
         /\ word_list = <<>> \/ Len(raw_parts) = word_size(word_list)
         /\ parts' = Guess(raw_parts)
    /\ pc' = "guess_ready"
    /\ UNCHANGED <<word, character_matched_list, match_result, word_list, raw_words,
                   already_ranked_arg, pruned, word_score, answer,
                   host_vars>>

\* d2 = d.prune(guess)
Prune ==
    /\ pc = "guess_ready"
    /\ LET call == prune_call(word_list, parts)
       IN  /\ word_list' = call.self
           /\ parts' = call.guess
           /\ pruned' = call.result
    /\ pc' = "pruned"
    /\ UNCHANGED <<word, character_matched_list, match_result, raw_words,
                   already_ranked_arg, word_score, answer,
                   host_vars>>

\* d = d.prune(guess): the session goes on with the returned dictionary.
PruneAndRebind ==
    /\ pc = "guess_ready"
    /\ LET call == prune_call(word_list, parts)
       IN  /\ word_list' = call.result
           /\ parts' = call.guess
           /\ pruned' = call.result
    /\ pc' = "filtered"
    /\ UNCHANGED <<word, character_matched_list, match_result, raw_words,
                   already_ranked_arg, word_score, answer,
                   host_vars>>

DictNext == DictNewGuess \/ Prune \/ PruneAndRebind

DictSpec == DictInit /\ [][DictNext]_vars

----------------------------------------------------------------------------
(* Scoring by itself: _score_word is handed one upper-case word, as         *)
(* _rank_wordlist hands it each word of its list.                           *)

\* The longest word scored, apart from the tests' words.
ScoreLen == 2

ScoreWords ==
    UNION {[1..n -> {Alphabet[k] : k \in 1..26}] : n \in 0..ScoreLen}
    \cup {ABC_ABA_XYZ[k] : k \in 1..Len(ABC_ABA_XYZ)}

ScoreInit ==
    /\ word \in ScoreWords
    /\ word_score = 0
    /\ HostIdle
    /\ parts = <<>>
    /\ character_matched_list = <<>>
    /\ match_result = FALSE
    /\ word_list = <<>>
    /\ raw_words = <<>>
    /\ already_ranked_arg = FALSE
    /\ pruned = <<>>
    /\ answer = <<>>
    /\ pc = "unscored"

\* _score_word(word)
ScoreWord ==
    /\ pc = "unscored"
    /\ word_score' = _score_word(word)
    /\ pc' = "scored"
    /\ UNCHANGED <<parts, word, character_matched_list, match_result, word_list,
                   raw_words, already_ranked_arg, pruned, answer,
                   host_vars>>

ScoreNext == ScoreWord

ScoreSpec == ScoreInit /\ [][ScoreNext]_vars

----------------------------------------------------------------------------
(* The Guess constructor by itself, given any list of pairs: the first      *)
(* element of a pair is a string of any length.                             *)

\* The longest list of pairs a Guess is constructed from, apart from the
\* tests' lists.
GuessMaxLen == 2

\* One-character strings in either case, the empty string, a string of two
\* letters, and the sharp s, whose upper case is two letters long.
GuessStrings == {"f", "o", "B", "", "ab", "ß"}

\* The lists of test_str and of test_invalid_char_raises.
FOO_Test == Pair(<<"f", "o", "o">>, <<CORRECT, ELSEWHERE, INCORRECT>>)
InvalidCharTest ==
    Pair(<<"this_is_not_a_single_character", "o", "o">>,
         <<CORRECT, ELSEWHERE, INCORRECT>>)

GuessInputs ==
    UNION {[1..n -> GuessStrings \X GameResponse] : n \in 0..GuessMaxLen}
    \cup {FOO_Test, InvalidCharTest}

GuessInit ==
    /\ call_args \in GuessInputs
    /\ raised = "none"
    /\ parts = <<>>
    /\ word = <<>>
    /\ character_matched_list = <<>>
    /\ match_result = FALSE
    /\ word_list = <<>>
    /\ raw_words = <<>>
    /\ already_ranked_arg = FALSE
    /\ pruned = <<>>
    /\ word_score = 0
    /\ answer = <<>>
    /\ dicts = <<>>
    /\ current_guess = None
    /\ quordle_word_size = 0
    /\ rounds = 0
    /\ pc = "guess_args"

\* Guess(call_args): the object exists only when the constructor returns.
GuessConstruct ==
    /\ pc = "guess_args"
    /\ IF Guess_raises(call_args)
       THEN /\ raised' = "ValueError"
            /\ parts' = parts
            /\ pc' = "guess_raised"
       ELSE /\ raised' = "none"
            /\ parts' = Guess(call_args)
            /\ pc' = "guess_built"
    /\ UNCHANGED <<word, character_matched_list, match_result, word_list, raw_words,
                   already_ranked_arg, pruned, word_score, answer, call_args, dicts,
                   current_guess, quordle_word_size, rounds>>

GuessNext == GuessConstruct

GuessSpec == GuessInit /\ [][GuessNext]_vars

----------------------------------------------------------------------------
(* The hosts' conversion of a guess word and the user's response string     *)
(* into a Guess (cromulence_wordle.py and cromulence_quordle.py hold the    *)
(* same two functions).  A string is a sequence of characters.              *)

\* A conversion that takes every symbol other than G and Y for B.
gyb_to_game_response_enum_default_b(gyb_value) ==
    IF gyb_value = "G" THEN CORRECT
    ELSE IF gyb_value = "Y" THEN ELSEWHERE
    ELSE INCORRECT

\* gyb_to_game_response_enum; "ValueError" stands for the exception raised.
gyb_to_game_response_enum(gyb_value) ==
    IF gyb_value = "G" THEN CORRECT
    ELSE IF gyb_value = "Y" THEN ELSEWHERE
    ELSE IF gyb_value = "B" THEN INCORRECT
    ELSE "ValueError"

\* convert_to_guess(word, gyb): the exception raised, if any, and the parts
\* of the Guess returned; guess is None when no Guess was constructed.  The
\* list of pairs is built in full before Guess is called with it.
convert_to_guess(w, gyb) ==
    IF Len(w) # Len(gyb)
    THEN [raised |-> "ValueError", guess |-> None]
    ELSE LET responses == [i \in 1..Len(w) |-> gyb_to_game_response_enum(gyb[i])]
         IN  IF \E i \in 1..Len(w) : responses[i] = "ValueError"
             THEN [raised |-> "ValueError", guess |-> None]
             ELSE IF Guess_raises(Pair(w, responses))
                  THEN [raised |-> "ValueError", guess |-> None]
                  ELSE [raised |-> "none", guess |-> Guess(Pair(w, responses))]

\* The longest word and response string converted.
ConvertLen == 2

\* The hosts pass words in upper case: word.upper(), or a word of a
\* dictionary.
ConvertWords == UNION {[1..n -> LongLetters] : n \in 0..ConvertLen}

\* Response strings of the three symbols, of a lower-case symbol and of a
\* symbol that is none of them.
GybStrings == UNION {[1..n -> {"G", "Y", "B", "g", "X"}] : n \in 0..ConvertLen}

ConvertInit ==
    /\ call_args \in ConvertWords \X GybStrings
    /\ raised = "none"
    /\ parts = None
    /\ word = <<>>
    /\ character_matched_list = <<>>
    /\ match_result = FALSE
    /\ word_list = <<>>
    /\ raw_words = <<>>
    /\ already_ranked_arg = FALSE
    /\ pruned = <<>>
    /\ word_score = 0
    /\ answer = <<>>
    /\ dicts = <<>>
    /\ current_guess = None
    /\ quordle_word_size = 0
    /\ rounds = 0
    /\ pc = "convert_args"

\* guess = convert_to_guess(word, gyb)
ConvertToGuess ==
    /\ pc = "convert_args"
    /\ LET call == convert_to_guess(call_args[1], call_args[2])
       IN  /\ raised' = call.raised
           /\ parts' = call.guess
           /\ pc' = IF call.raised = "none" THEN "converted" ELSE "convert_raised"
    /\ UNCHANGED <<word, character_matched_list, match_result, word_list, raw_words,
                   already_ranked_arg, pruned, word_score, answer, call_args, dicts,
                   current_guess, quordle_word_size, rounds>>

ConvertNext == ConvertToGuess

ConvertSpec == ConvertInit /\ [][ConvertNext]_vars

----------------------------------------------------------------------------
(* Dictionary.official with a download function that returns a word list,   *)
(* an empty list or None.                                                   *)

\* The list of test_official_word_list_returns_dictionary, and the list of
\* the download tests, which is in lower case.
ABC_DEF_GHI == <<ABC_ABA_XYZ[1], <<"D", "E", "F">>, <<"G", "H", "I">>>>
abc_def_ghi == <<<<"a", "b", "c">>, <<"d", "e", "f">>, <<"g", "h", "i">>>>

Downloads ==
    UNION {[1..n -> DictWords \cup {<<"B", "A">>}] : n \in 0..DictMaxWords}
    \cup {ABC_DEF_GHI, abc_def_ghi, ABC_ABA_XYZ, None}

OfficialInit ==
    /\ call_args \in Downloads
    /\ raised = "none"
    /\ word_list = None
    /\ parts = <<>>
    /\ word = <<>>
    /\ character_matched_list = <<>>
    /\ match_result = FALSE
    /\ raw_words = <<>>
    /\ already_ranked_arg = FALSE
    /\ pruned = <<>>
    /\ word_score = 0
    /\ answer = <<>>
    /\ dicts = <<>>
    /\ current_guess = None
    /\ quordle_word_size = 0
    /\ rounds = 0
    /\ pc = "downloaded"

\* d = Dictionary.official(download_fun)
Official ==
    /\ pc = "downloaded"
    /\ LET call == official(call_args)
       IN  /\ raised' = call.raised
           /\ word_list' = call.word_list
           /\ pc' = IF call.raised = "none" THEN "official" ELSE "official_raised"
    /\ UNCHANGED <<parts, word, character_matched_list, match_result, raw_words,
                   already_ranked_arg, pruned, word_score, answer, call_args, dicts,
                   current_guess, quordle_word_size, rounds>>

OfficialNext == Official

OfficialSpec == OfficialInit /\ [][OfficialNext]_vars

----------------------------------------------------------------------------
(* The Wordle host (cromulence_wordle.py: main).  The download and the      *)
(* user's inputs are the model's inputs.                                    *)

\* A Dictionary that is true whatever it holds.
truth_always(wl) == TRUE

\* The truth value of a Dictionary, as `while d:` takes it: that of its
\* __len__.
truth(wl) == __len__(wl) # 0

\* filter_dict accepts the user's response gyb_values for the word w: it is
\* as long as the word and matches [gybGYB]+.
valid_gyb_values(w, gyb_values) ==
    /\ Len(gyb_values) = Len(w)
    /\ Len(gyb_values) >= 1
    /\ \A i \in 1..Len(gyb_values) : gyb_values[i] \in {"g", "y", "b", "G", "Y", "B"}

\* filter_dict(word, d), given the response it accepts: the guess it builds
\* and the list of the Dictionary it returns.
filter_dict(w, wl, gyb_values) ==
    LET guess == convert_to_guess(w, upper(gyb_values)).guess
    IN  [guess |-> guess, d |-> prune(wl, guess)]

\* What the user types as the game's response: every response of two and of
\* three symbols, and responses in lower case.
GybInputs ==
    UNION {[1..n -> {"G", "Y", "B"}] : n \in 2..3}
    \cup {<<"g", "y">>, <<"g", "B", "b">>}

\* Inputs of which filter_dict refuses some or all: nothing, a response of
\* another length, and a response with a symbol that is not G, Y or B.
OddGybInputs ==
    {<<>>, <<"G">>, <<"G", "X">>, <<"G", "Y">>, <<"G", "X", "B">>, <<"G", "Y", "B">>,
     <<"G", "G", "G", "G">>}

\* The words the user types as guesses already made (--save-me).
SaveMeWords == {<<"a", "c">>, <<"C", "A">>, <<"B", "C", "D">>}

\* What the download returns to the Wordle host.
WordleDownloads ==
    UNION {[1..n -> DictWords] : n \in 0..DictMaxWords}
    \cup {ABC_ABA_XYZ, abc_def_ghi, None}

WordleInit ==
    /\ call_args \in WordleDownloads
    /\ raised = "none"
    /\ word_list = None
    /\ raw_words = <<>>
    /\ already_ranked_arg = FALSE
    /\ current_guess = None
    /\ rounds = 0
    /\ parts = <<>>
    /\ word = <<>>
    /\ character_matched_list = <<>>
    /\ match_result = FALSE
    /\ pruned = <<>>
    /\ word_score = 0
    /\ answer = <<>>
    /\ dicts = <<>>
    /\ quordle_word_size = 0
    /\ pc = "wordle_start"

\* main up to the first prompt: the dictionary is downloaded, or the program
\* aborts; without --save-me the initial guess is taken and the loop
\* `while d:` is entered or left.
WordleStart ==
    /\ pc = "wordle_start"
    /\ LET call == official(call_args)
       IN  IF call.raised # "none"
           THEN /\ raised' = "Abort"
                /\ pc' = "wordle_aborted"
                /\ UNCHANGED <<word_list, raw_words, current_guess>>
           ELSE /\ raised' = "none"
                /\ word_list' = call.word_list
                /\ raw_words' = call_args
                /\ \E save_me \in BOOLEAN :
                     IF save_me
                     THEN pc' = "wordle_save_me" /\ current_guess' = current_guess
                     ELSE /\ current_guess' = get_most_likely_word(call.word_list)
                          /\ pc' = IF truth(call.word_list)
                                   THEN "wordle_prompt" ELSE "wordle_done"
    /\ UNCHANGED <<parts, word, character_matched_list, match_result,
                   already_ranked_arg, pruned, word_score, answer, call_args, dicts,
                   quordle_word_size, rounds>>

\* --save-me, a guess already made: d = filter_dict(word.upper(), d).  The
\* user gives words of the dictionary's word size.
WordleSaveMe ==
    /\ pc = "wordle_save_me"
    /\ \E w \in SaveMeWords, gyb_values \in GybInputs :
         /\ word_list = <<>> \/ Len(w) = word_size(word_list)
         /\ valid_gyb_values(upper(w), gyb_values)
         /\ \E call \in {filter_dict(upper(w), word_list, gyb_values)} :
                /\ parts' = call.guess
                /\ word_list' = call.d
         /\ call_args' = gyb_values
    /\ UNCHANGED <<word, character_matched_list, match_result, raw_words,
                   already_ranked_arg, pruned, word_score, answer, raised, dicts,
                   current_guess, quordle_word_size, rounds, pc>>

\* --save-me, a blank word: the initial guess is taken and the loop
\* `while d:` is entered or left.
WordleSaveMeEnd ==
    /\ pc = "wordle_save_me"
    /\ current_guess' = get_most_likely_word(word_list)
    /\ pc' = IF truth(word_list) THEN "wordle_prompt" ELSE "wordle_done"
    /\ UNCHANGED <<parts, word, character_matched_list, match_result, word_list,
                   raw_words, already_ranked_arg, pruned, word_score, answer,
                   call_args, raised, dicts, quordle_word_size, rounds>>

\* filter_dict refuses the user's response and prompts again.
WordleRefuse ==
    /\ pc = "wordle_prompt"
    /\ \E gyb_values \in OddGybInputs :
         /\ ~valid_gyb_values(current_guess, gyb_values)
         /\ call_args' = gyb_values
    /\ UNCHANGED <<parts, word, character_matched_list, match_result, word_list,
                   raw_words, already_ranked_arg, pruned, word_score, answer, raised,
                   dicts, current_guess, quordle_word_size, rounds, pc>>

\* One round of `while d:`: d = filter_dict(current_guess, d), the next guess
\* is taken, and the loop goes on or ends with the report that the
\* dictionary has no more possible words.
WordleRound ==
    /\ pc = "wordle_prompt"
    /\ \E gyb_values \in GybInputs :
         /\ valid_gyb_values(current_guess, gyb_values)
         /\ \E call \in {filter_dict(current_guess, word_list, gyb_values)} :
                /\ parts' = call.guess
                /\ word_list' = call.d
                /\ current_guess' = get_most_likely_word(call.d)
                /\ pc' = IF truth(call.d) THEN "wordle_prompt" ELSE "wordle_done"
         /\ call_args' = gyb_values
         /\ rounds' = IF \A i \in 1..Len(gyb_values) : upper_char(gyb_values[i]) = "G"
                      THEN rounds ELSE rounds + 1
    /\ UNCHANGED <<word, character_matched_list, match_result, raw_words,
                   already_ranked_arg, pruned, word_score, answer, raised, dicts,
                   quordle_word_size>>

WordleNext ==
    WordleStart \/ WordleSaveMe \/ WordleSaveMeEnd \/ WordleRefuse \/ WordleRound

WordleSpec == WordleInit /\ [][WordleNext]_vars

----------------------------------------------------------------------------
(* The Quordle host (cromulence_quordle.py: main): four dictionaries, one   *)
(* shared guess.  The download and the user's inputs are the model's        *)
(* inputs; the user's input is held as the list user_input.split() gives.   *)

\* convert_to_guess of cromulence_quordle.py, the same text as the Wordle
\* host's.
quordle_convert_to_guess(w, gyb) == convert_to_guess(w, gyb)

\* num_dicts = len(dicts)
num_dicts == 4

\* The four dictionaries main constructs from the downloaded word list.
quordle_dicts(downloaded) == [i \in 1..num_dicts |-> Dictionary(downloaded, FALSE)]

\* sum([len(gyb_value) for gyb_value in gyb_input_list])
RECURSIVE total_input_length(_)
total_input_length(gyb_input_list) ==
    IF gyb_input_list = <<>> THEN 0
    ELSE Len(Head(gyb_input_list)) + total_input_length(Tail(gyb_input_list))

\* The tests main makes on a round's input before it prunes: four
\* responses, a total length of word_size * num_dicts, and every response
\* matching [gybGYB]+.
valid_inputs(gyb_input_list, size) ==
    /\ Len(gyb_input_list) = 4
    /\ total_input_length(gyb_input_list) = size * num_dicts
    /\ \A k \in 1..Len(gyb_input_list) :
         /\ Len(gyb_input_list[k]) >= 1
         /\ \A i \in 1..Len(gyb_input_list[k]) :
              gyb_input_list[k][i] \in {"g", "y", "b", "G", "Y", "B"}

\* The loop over the responses from the i-th on: each is converted to a Guess
\* for the shared guess and dicts[i] is replaced by its prune.  An exception
\* of convert_to_guess ends the loop and leaves the dictionaries as they are
\* by then.
RECURSIVE prune_dicts_from(_, _, _, _)
prune_dicts_from(ds, guess_word, gyb_input_list, i) ==
    IF i > Len(gyb_input_list) THEN [raised |-> "none", dicts |-> ds]
    ELSE LET call == quordle_convert_to_guess(guess_word, upper(gyb_input_list[i]))
         IN  IF call.raised # "none"
             THEN [raised |-> call.raised, dicts |-> ds]
             ELSE prune_dicts_from([ds EXCEPT ![i] = prune(ds[i], call.guess)],
                                   guess_word, gyb_input_list, i + 1)

\* min_words = 999999
min_words == 999999

\* The loop that chooses the next dictionary, from the i-th on: a dictionary
\* replaces the choice when it is not empty and smaller than the smallest so
\* far.  best is the place in dicts of the dictionary chosen, 0 for None.
RECURSIVE best_dict_from(_, _, _, _)
best_dict_from(ds, i, smallest, best) ==
    IF i > Len(ds) THEN best
    ELSE LET dict_size == __len__(ds[i])
         IN  IF dict_size > 0 /\ dict_size < smallest
             THEN best_dict_from(ds, i + 1, dict_size, i)
             ELSE best_dict_from(ds, i + 1, smallest, best)

\* best_dict after the loop: the place in dicts of the dictionary chosen, 0
\* when best_dict is None.
best_dict(ds) == best_dict_from(ds, 1, min_words, 0)

\* The most words downloaded for the Quordle host.
QuordleMaxWords == 2

\* What download_quordle_dictionary returns: [] when a download or a search
\* fails, otherwise the words of the word bank.
QuordleDownloads == UNION {[1..n -> DictWords] : n \in 0..QuordleMaxWords}

\* One quadrant's response to a guess of two letters.
QuadResponses == {<<"G", "G">>, <<"G", "B">>, <<"B", "B">>}

\* Other inputs of the user: nothing, three responses, four responses too
\* long, four responses of unequal lengths with the total length of four
\* equal ones, a symbol that is not G, Y or B, and responses with Y and in
\* lower case.
OddQuordleInputs ==
    {<<>>,
     <<<<"G", "G">>, <<"G", "G">>, <<"G", "G">>>>,
     <<<<"G", "G", "G">>, <<"G", "G">>, <<"G", "G">>, <<"G", "G">>>>,
     <<<<"G">>, <<"G", "G", "G">>, <<"G", "G">>, <<"G", "G">>>>,
     <<<<"B", "G">>, <<"G", "B">>, <<"G">>, <<"G", "G", "G">>>>,
     <<<<"G", "X">>, <<"G", "G">>, <<"G", "G">>, <<"G", "G">>>>,
     <<<<"Y", "Y">>, <<"Y", "Y">>, <<"G", "B">>, <<"G", "G">>>>,
     <<<<"b", "g">>, <<"y", "y">>, <<"g", "b">>, <<"b", "B">>>>}

QuordleInputs == [1..4 -> QuadResponses] \cup OddQuordleInputs

QuordleInit ==
    /\ call_args \in QuordleDownloads
    /\ raised = "none"
    /\ dicts = <<>>
    /\ current_guess = None
    /\ quordle_word_size = 0
    /\ rounds = 0
    /\ word_list = <<>>
    /\ raw_words = <<>>
    /\ already_ranked_arg = FALSE
    /\ parts = <<>>
    /\ word = <<>>
    /\ character_matched_list = <<>>
    /\ match_result = FALSE
    /\ pruned = <<>>
    /\ word_score = 0
    /\ answer = <<>>
    /\ pc = "quordle_start"

\* main up to the first prompt: the four dictionaries are constructed, the
\* initial guess is taken from dicts[0] and word_size is its length.  The
\* guess of an empty dictionary is None, and len(None) raises TypeError.
QuordleStart ==
    /\ pc = "quordle_start"
    /\ raw_words' = call_args
    /\ call_args' = <<>>
    /\ dicts' = quordle_dicts(call_args)
    /\ current_guess' = get_most_likely_word(dicts'[1])
    /\ IF current_guess' = None
       THEN /\ raised' = "TypeError"
            /\ pc' = "quordle_crashed"
            /\ UNCHANGED quordle_word_size
       ELSE /\ quordle_word_size' = Len(current_guess')
            /\ pc' = "quordle_prompt"
            /\ UNCHANGED raised
    /\ UNCHANGED <<parts, word, character_matched_list, match_result, word_list,
                   already_ranked_arg, pruned, word_score, answer, rounds>>

\* click.prompt and user_input.split(): the user's input is read.
QuordlePrompt ==
    /\ pc = "quordle_prompt"
    /\ call_args' \in QuordleInputs
    /\ pc' = "quordle_input"
    /\ UNCHANGED <<parts, word, character_matched_list, match_result, word_list,
                   raw_words, already_ranked_arg, pruned, word_score, answer, raised,
                   dicts, current_guess, quordle_word_size, rounds>>

\* main reports an error in the user's input and prompts again.
QuordleRefuse ==
    /\ pc = "quordle_input"
    /\ ~valid_inputs(call_args, quordle_word_size)
    /\ call_args' = <<>>
    /\ pc' = "quordle_prompt"
    /\ UNCHANGED <<parts, word, character_matched_list, match_result, word_list,
                   raw_words, already_ranked_arg, pruned, word_score, answer, raised,
                   dicts, current_guess, quordle_word_size, rounds>>

\* The rest of a round of `while True:` on an input that passes the tests:
\* the dictionaries are pruned in turn, the next dictionary is chosen and its
\* best word becomes the shared guess.  A ValueError of convert_to_guess ends
\* the program part-way through the dictionaries; with no dictionary chosen,
\* best_dict.get_most_likely_word() raises AttributeError.  The input stays
\* in call_args when the program ends; it is dropped on the way back to the
\* prompt, where the next input replaces it.
QuordleRound ==
    /\ pc = "quordle_input"
    /\ valid_inputs(call_args, quordle_word_size)
    /\ \E call \in {prune_dicts_from(dicts, current_guess, call_args, 1)} :
           /\ dicts' = call.dicts
           /\ IF call.raised # "none"
              THEN /\ raised' = call.raised
                   /\ pc' = "quordle_crashed"
                   /\ UNCHANGED <<current_guess, call_args>>
              ELSE IF best_dict(dicts') = 0
              THEN /\ raised' = "AttributeError"
                   /\ pc' = "quordle_crashed"
                   /\ UNCHANGED <<current_guess, call_args>>
              ELSE /\ current_guess' = get_most_likely_word(dicts'[best_dict(dicts')])
                   /\ call_args' = <<>>
                   /\ pc' = "quordle_prompt"
                   /\ UNCHANGED raised
    /\ UNCHANGED <<parts, word, character_matched_list, match_result, word_list,
                   raw_words, already_ranked_arg, pruned, word_score, answer,
                   quordle_word_size, rounds>>

QuordleNext == QuordleStart \/ QuordlePrompt \/ QuordleRefuse \/ QuordleRound

QuordleSpec == QuordleInit /\ [][QuordleNext]_vars

----------------------------------------------------------------------------
(* Properties of the matcher.  They speak of the state after match has      *)
(* returned: parts is the feedback F, word the candidate W.                 *)

Matched == pc = "matched"

\* The candidate as match compares it, and its character at position j.
W == upper(word)
WAt(j) == upper_char(word[j])

Positions == 1..Len(parts)

\* The positions at which the feedback has character ch with response r.
Entries(ch, r) == {i \in Positions : parts[i] = <<ch, r>>}

\* The positions at which the candidate holds character ch.
Occurrences(ch) == {j \in 1..Len(word) : upper_char(word[j]) = ch}

\* The characters of the feedback.
FeedbackLetters == {parts[i][1] : i \in Positions}

\* The outcome and the claimed positions after the MATCH pass, and after the
\* MATCH and ELSEWHERE passes.
AfterCorrect == _match_correct(parts, W, [k \in 1..Len(W) |-> FALSE])
AfterElsewhere == _match_elsewhere(parts, W, AfterCorrect.list)

\* The slots of the candidate that may support an ELSEWHERE entry for ch: they
\* hold ch, the MATCH pass has not claimed them, and the feedback does not
\* itself carry ch there with ELSEWHERE or ABSENT.
LegalSlots(ch) ==
    {j \in Occurrences(ch) :
        /\ ~AfterCorrect.list[j]
        /\ ~(parts[j][1] = ch /\ parts[j][2] # CORRECT)}

\* Feedback and words of test/test_guess.py.
FOO_GYB == Pair(<<"F", "O", "O">>, <<CORRECT, ELSEWHERE, INCORRECT>>)
FOO_GGG == Pair(<<"F", "O", "O">>, <<CORRECT, CORRECT, CORRECT>>)
FOO_YGG == Pair(<<"F", "O", "O">>, <<ELSEWHERE, CORRECT, CORRECT>>)
WORRY_BYYYB ==
    Pair(<<"W", "O", "R", "R", "Y">>,
         <<INCORRECT, ELSEWHERE, ELSEWHERE, ELSEWHERE, INCORRECT>>)
ABCDE_YYYYY ==
    Pair(<<"A", "B", "C", "D", "E">>,
         <<ELSEWHERE, ELSEWHERE, ELSEWHERE, ELSEWHERE, ELSEWHERE>>)
ORDER == <<"O", "R", "D", "E", "R">>
ODOUR == <<"O", "D", "O", "U", "R">>
ECABD == <<"E", "C", "A", "B", "D">>

\* C1: the true answer is never pruned: after any sequence of rounds in which
\* the dictionary is pruned by the game's own response to a guess, the answer
\* is still in the dictionary.
C1_AnswerSurvives == \E k \in 1..Len(word_list) : word_list[k] = answer

\* C2: when the MATCH pass has passed and, for every ELSEWHERE character ch, the
\* word does not hold ch at an ELSEWHERE ch position and has at least as many
\* legal unclaimed slots holding ch as the feedback has ELSEWHERE entries for
\* ch, the ELSEWHERE pass does not reject the word; and WORRY/BYYYB matches
\* ORDER.
C2_EnoughSlotsPassElsewhere ==
    Matched =>
        /\ ( /\ AfterCorrect.result
             /\ \A i \in Positions :
                   parts[i][2] = ELSEWHERE =>
                       /\ WAt(i) # parts[i][1]
                       /\ Cardinality(LegalSlots(parts[i][1]))
                            >= Cardinality(Entries(parts[i][1], ELSEWHERE)) )
           => AfterElsewhere.result
        /\ (parts = WORRY_BYYYB /\ W = ORDER) => match_result

\* C3: a word with fewer occurrences of a character outside the MATCH positions
\* than the feedback has ELSEWHERE entries for that character is rejected; so
\* are ODOUR against WORRY/BYYYB, AAAAA against ABCDE/YYYYY and WOO against
\* FOO/YGG.
C3_TooFewOccurrencesRejected ==
    Matched =>
        /\ (\E ch \in FeedbackLetters :
               Cardinality({j \in Occurrences(ch) : parts[j][2] # CORRECT})
                 < Cardinality(Entries(ch, ELSEWHERE)))
           => ~match_result
        /\ (parts = WORRY_BYYYB /\ W = ODOUR) => ~match_result
        /\ (parts = ABCDE_YYYYY /\ W = <<"A", "A", "A", "A", "A">>) => ~match_result
        /\ (parts = FOO_YGG /\ W = <<"W", "O", "O">>) => ~match_result

\* C3's case: the MATCH pass passes, the feedback has two ELSEWHERE entries for a
\* character the word holds once, and the word is rejected.
C3_Witness ==
    /\ Matched
    /\ AfterCorrect.result
    /\ \E ch \in FeedbackLetters :
          /\ Cardinality(Entries(ch, ELSEWHERE)) = 2
          /\ Cardinality(Occurrences(ch)) = 1
          /\ \A i \in Entries(ch, ELSEWHERE) : WAt(i) # ch
    /\ ~match_result

\* C4: for a word that passes the MATCH and ELSEWHERE passes, match is true
\* exactly when every occurrence in the word of every ABSENT character lies at
\* a position those two passes claimed; and a word holding a character that the
\* feedback has only as ABSENT is rejected.
C4_AbsentNeedsClaimedOccurrences ==
    (Matched /\ AfterCorrect.result /\ AfterElsewhere.result) =>
        /\ match_result <=>
              \A i \in Positions :
                  parts[i][2] = INCORRECT =>
                      \A j \in Occurrences(parts[i][1]) : AfterElsewhere.list[j]
        /\ \A ch \in FeedbackLetters :
              ( /\ Entries(ch, INCORRECT) # {}
                /\ Entries(ch, CORRECT) = {}
                /\ Entries(ch, ELSEWHERE) = {}
                /\ Occurrences(ch) # {} )
              => ~match_result

\* C5: when the feedback has k >= 1 ELSEWHERE entries, at least one ABSENT entry
\* and no MATCH entry for a character, every word holding that character more
\* than k times is rejected.
C5_AbsentCapsCount ==
    Matched =>
        \A ch \in FeedbackLetters :
            ( /\ Entries(ch, ELSEWHERE) # {}
              /\ Entries(ch, INCORRECT) # {}
              /\ Entries(ch, CORRECT) = {}
              /\ Cardinality(Occurrences(ch)) > Cardinality(Entries(ch, ELSEWHERE)) )
            => ~match_result

\* C6: when the feedback has a character as MATCH at the positions P, as ABSENT
\* at some other position and nowhere as ELSEWHERE, every accepted word holds
\* that character at exactly the positions P.
C6_MatchThenAbsentIsExact ==
    (Matched /\ match_result) =>
        \A ch \in FeedbackLetters :
            ( /\ Entries(ch, CORRECT) # {}
              /\ Entries(ch, INCORRECT) # {}
              /\ Entries(ch, ELSEWHERE) = {} )
            => Occurrences(ch) = Entries(ch, CORRECT)

\* The dictionary of every three-letter word over ShortLetters and of the
\* tests' three-letter words.
ThreeLetterDictionary ==
    Dictionary(SeqOf(WordsOver(ShortLetters, 3)
                       \cup {t.word : t \in {c \in TestCases : Len(c.word) = 3}}),
               FALSE)

\* Feedback of three entries: one character as MATCH, then another character
\* as ELSEWHERE and right after it as ABSENT.
ElsewhereThenAbsent ==
    /\ Len(parts) = 3
    /\ parts[1][2] = CORRECT
    /\ parts[2][2] = ELSEWHERE
    /\ parts[3][2] = INCORRECT
    /\ parts[2][1] = parts[3][1]

\* C7: feedback FOO/GYB, and any feedback of its shape, rejects every
\* three-letter word, and pruning a dictionary by it leaves no word; a slot at
\* which the feedback has the character the word holds there with ELSEWHERE or
\* ABSENT is never claimed by the ELSEWHERE pass.
C7_ContradictionRejectsAll ==
    /\ (Matched /\ (parts = FOO_GYB \/ ElsewhereThenAbsent)) => ~match_result
    /\ (pc = "guess" /\ (parts = FOO_GYB \/ ElsewhereThenAbsent)) =>
           Len(prune(ThreeLetterDictionary, parts)) = 0
    /\ (Matched /\ AfterCorrect.result) =>
           LET claimed == AfterElsewhere.list
           IN  \A j \in Positions :
                   (parts[j][2] # CORRECT /\ WAt(j) = parts[j][1]) => ~claimed[j]

\* C7's case: FIO has been matched against FOO/GYB and rejected.
C7_Witness ==
    /\ Matched
    /\ parts = FOO_GYB
    /\ W = <<"F", "I", "O">>
    /\ ~match_result

\* The number of times character ch occurs in the sequence of characters s.
CountIn(s, ch) == Cardinality({k \in 1..Len(s) : s[k] = ch})

\* C8: when every response is ELSEWHERE and the word is a rearrangement of the
\* feedback's characters (each as often as the feedback has it) that keeps no
\* character in its place, the word matches; ABCDE/YYYYY matches ECABD.
C8_Anagram ==
    Matched =>
        /\ ( /\ \A i \in Positions : parts[i][2] = ELSEWHERE
             /\ \A i \in Positions : WAt(i) # parts[i][1]
             /\ \A ch \in FeedbackLetters \cup {WAt(j) : j \in 1..Len(W)} :
                   CountIn(W, ch) = CountIn(GuessStr(parts), ch) )
           => match_result
        /\ (parts = ABCDE_YYYYY /\ W = ECABD) => match_result

\* The place of a letter in the alphabet, whatever its case.
LetterNumberOf ==
    [ch \in {Alphabet[k] : k \in 1..26} \cup {LowerAlphabet[k] : k \in 1..26} |->
        CHOOSE k \in 1..26 : Alphabet[k] = ch \/ LowerAlphabet[k] = ch]

LetterNumber(ch) == LetterNumberOf[ch]

\* C9: when every response is MATCH, the word matches exactly when it spells,
\* case aside, the feedback's characters; and a word that differs from the
\* feedback at some MATCH position is rejected.
C9_AllMatchIsEquality ==
    Matched =>
        /\ (\A i \in Positions : parts[i][2] = CORRECT) =>
              (match_result <=>
                  \A i \in Positions :
                      LetterNumber(word[i]) = LetterNumber(parts[i][1]))
        /\ (\E i \in Positions :
               /\ parts[i][2] = CORRECT
               /\ LetterNumber(word[i]) # LetterNumber(parts[i][1]))
           => ~match_result

\* C9's case: fOo, given in mixed case, has been matched against FOO/GGG and
\* accepted.
C9_Witness ==
    /\ Matched
    /\ parts = FOO_GGG
    /\ word = <<"f", "O", "o">>
    /\ match_result

\* C10: a word that holds an ELSEWHERE character at the position of that entry
\* is rejected.
C10_ElsewhereForbidsOwnSlot ==
    (Matched /\ \E i \in Positions : parts[i][2] = ELSEWHERE /\ WAt(i) = parts[i][1])
    => ~match_result

\* C10's case: the MATCH pass passes and the word holds an ELSEWHERE character
\* at the entry's own position and again at a legal slot; it is rejected.
C10_Witness ==
    /\ Matched
    /\ AfterCorrect.result
    /\ \E i \in Positions :
          /\ parts[i][2] = ELSEWHERE
          /\ WAt(i) = parts[i][1]
          /\ LegalSlots(parts[i][1]) # {}
    /\ ~match_result

----------------------------------------------------------------------------
(* Properties of the dictionary.  The score they speak of is written from   *)
(* the letter weights and the repeat penalty, without _score_word.          *)

\* The letter weights.
Weight ==
    [A |-> 1, B |-> 3, C |-> 3, D |-> 2, E |-> 1, F |-> 4, G |-> 2, H |-> 4,
     I |-> 1, J |-> 8, K |-> 5, L |-> 1, M |-> 3, N |-> 1, O |-> 1, P |-> 3,
     Q |-> 10, R |-> 1, S |-> 1, T |-> 1, U |-> 1, V |-> 4, W |-> 4, X |-> 8,
     Y |-> 4, Z |-> 10]

\* The number of occurrences of w[i] before position i.
EarlierOccurrences(w, i) == Cardinality({j \in 1..(i - 1) : w[j] = w[i]})

RECURSIVE ScoreUpTo(_, _)
ScoreUpTo(w, i) ==
    IF i = 0 THEN 0
    ELSE ScoreUpTo(w, i - 1) + Weight[w[i]] + EarlierOccurrences(w, i)

\* The score of a word: each letter's weight plus one for every earlier
\* occurrence of that letter.
Score(w) == ScoreUpTo(w, Len(w))

ABC == <<"A", "B", "C">>
ABA == <<"A", "B", "A">>
XYZ == <<"X", "Y", "Z">>

Constructed == pc = "constructed"

\* The constructor's word list in upper case.
UpperInput == [k \in 1..Len(raw_words) |-> upper(raw_words[k])]

\* ws is ascending by score.
Ascending(ws) ==
    \A k, l \in 1..Len(ws) : k < l => Score(ws[k]) <= Score(ws[l])

\* C11: a dictionary constructed with already_ranked false holds the input
\* words in upper case, ascending by score, words of equal score in their
\* input order; ABC, ABA, XYZ becomes ABA, ABC, XYZ and the most likely word
\* is ABA.
C11_RankedAscendingStable ==
    (Constructed /\ ~already_ranked_arg) =>
        /\ \E f \in Orders(Len(raw_words)) :
             /\ word_list = Reordered(UpperInput, f)
             /\ \A k, l \in 1..Len(raw_words) :
                  (k < l /\ Score(word_list[k]) = Score(word_list[l])) => f[k] < f[l]
        /\ Ascending(word_list)
        /\ raw_words = ABC_ABA_XYZ =>
             /\ word_list = <<ABA, ABC, XYZ>>
             /\ get_most_likely_word(word_list) = ABA

\* A list was ranked whose lowest-scoring word came last and whose other two
\* words, one of them in lower case, have the same score.
C11_Witness ==
    /\ Constructed
    /\ ~already_ranked_arg
    /\ raw_words = <<<<"b", "a">>, <<"A", "B">>, <<"A", "A">>>>
    /\ word_list = <<<<"A", "A">>, <<"B", "A">>, <<"A", "B">>>>

\* C12: the score of a word is the sum over its positions of the letter's
\* weight plus the number of earlier occurrences of that letter in the word;
\* ABC scores 7, ABA 6 and XYZ 22.
C12_ScoreIsWeightPlusRepeats ==
    pc = "scored" =>
        /\ word_score = Score(word)
        /\ word = ABC => word_score = 7
        /\ word = ABA => word_score = 6
        /\ word = XYZ => word_score = 22

\* A word with a repeated letter was scored.
C12_Witness ==
    /\ pc = "scored"
    /\ word = ABA
    /\ word_score = 6

\* The dictionary constructed from the constructor's list put in order f.
Reranked(f) == Dictionary(Reordered(raw_words, f), FALSE)

\* C13 (as stated): two lists that are permutations of the same multiset of
\* words are ranked into the same sequence.
C13_OrderIndependent ==
    (Constructed /\ ~already_ranked_arg) =>
        \A f \in Orders(Len(raw_words)) : Reranked(f) = word_list

\* No two different words of ws have the same score.
NoTies(ws) ==
    \A k, l \in 1..Len(ws) : Score(ws[k]) = Score(ws[l]) => ws[k] = ws[l]

\* C13 (amended): two lists that are permutations of the same multiset of
\* words are ranked into sequences of the same words with the same sequence
\* of scores, and into the same sequence when no two different words of the
\* list have the same score.
C13_OrderIndependentUpToTies ==
    (Constructed /\ ~already_ranked_arg) =>
        \A f \in Orders(Len(raw_words)) :
            LET other == Reranked(f)
            IN  /\ Len(other) = Len(word_list)
                /\ \A k \in 1..Len(other) :
                     /\ Score(other[k]) = Score(word_list[k])
                     /\ Cardinality({l \in 1..Len(other) : other[l] = other[k]})
                          = Cardinality({l \in 1..Len(other) : word_list[l] = other[k]})
                /\ NoTies(UpperInput) => other = word_list

\* The tests' three words, no two of the same score, were given highest
\* score first and ranked.
C13_Witness ==
    /\ Constructed
    /\ ~already_ranked_arg
    /\ raw_words = <<XYZ, ABC, ABA>>
    /\ NoTies(UpperInput)
    /\ word_list = <<ABA, ABC, XYZ>>

\* A prune call is made in this step.
Pruning == pc = "guess_ready"

\* The words of wl that guess p matches, in wl's order.
Matching(wl, p) == SelectSeq(wl, LAMBDA w : match(p, w))

\* C14: prune returns exactly the receiver's words that the guess matches, in
\* the receiver's order, nothing ranked again and nothing added; the tests'
\* list pruned by (B, ELSEWHERE), (C, INCORRECT), (D, INCORRECT) is ABA alone.
C14_PruneIsMatchingSubsequence ==
    [][Pruning =>
         /\ pruned' = Matching(word_list, parts)
         /\ (word_list \in {<<ABA, ABC, XYZ>>, ABC_ABA_XYZ} /\ parts = Guess(BCD_YBB))
              => pruned' = <<ABA>>]_vars

\* A list given as ranked with its higher-scoring word first was pruned by a
\* guess that matches both words, and both were kept in that order.
C14_Witness ==
    /\ pc = "pruned"
    /\ already_ranked_arg
    /\ word_list = <<<<"A", "B">>, <<"A", "A">>>>
    /\ pruned = word_list

\* A prune call whose receiver the caller keeps is made in this step.
PruningKept == Pruning /\ pc' = "pruned"

\* C15: prune leaves the receiver and the guess as they were: the receiver's
\* words, length and most likely word and the guess's parts are the same
\* after the call, and the result is what a prune of that receiver by that
\* guess alone gives, whatever it was pruned by before.
C15_PruneLeavesReceiverAndGuess ==
    [][(PruningKept =>
          /\ word_list' = word_list
          /\ __len__(word_list') = __len__(word_list)
          /\ get_most_likely_word(word_list') = get_most_likely_word(word_list)
          /\ pruned' = Matching(word_list', parts'))
       /\ (Pruning => parts' = parts)]_vars

\* A dictionary was pruned by a guess that rejects some of its words and
\* keeps others, and is still as it was constructed.
C15_Witness ==
    /\ pc = "pruned"
    /\ word_list = Dictionary(raw_words, already_ranked_arg)
    /\ pruned # <<>>
    /\ Len(pruned) < Len(word_list)
    /\ parts = Guess(Pair(<<"A", "C">>, <<ELSEWHERE, INCORRECT>>))

\* The most likely word of wl has the lowest score of wl's words.
BestIsMinimal(wl) ==
    wl # <<>> => \A k \in 1..Len(wl) : Score(get_most_likely_word(wl)) <= Score(wl[k])

\* C16: a dictionary constructed with already_ranked false and every
\* dictionary that prunes make of it, one after another, is ascending by
\* score, and its most likely word has the lowest score of its words.
C16_SortedThroughPrunes ==
    ~already_ranked_arg =>
        /\ Ascending(word_list) /\ BestIsMinimal(word_list)
        /\ Ascending(pruned) /\ BestIsMinimal(pruned)

\* A ranked dictionary was replaced by a prune of it that dropped a word and
\* kept words of different scores.
C16_Witness ==
    /\ pc = "filtered"
    /\ ~already_ranked_arg
    /\ Len(word_list) < Len(raw_words)
    /\ Len(word_list) >= 2
    /\ Score(word_list[1]) < Score(word_list[Len(word_list)])

\* C17: the dictionary a prune returns is never longer than its receiver, so
\* the session's dictionary never grows.
C17_PruneNeverGrows ==
    [][/\ Pruning => __len__(pruned') <= __len__(word_list)
       /\ __len__(word_list') <= __len__(word_list)]_vars

\* A dictionary of as many words as a list may have was replaced by prunes
\* that left one word.
C17_Witness ==
    /\ pc = "filtered"
    /\ Len(raw_words) = DictMaxWords
    /\ Len(word_list) = 1

\* What an exhausted dictionary answers: no length, no word size, no word.
Exhausted(wl) ==
    /\ __len__(wl) = 0
    /\ word_size(wl) = 0
    /\ get_most_likely_word(wl) = None

\* Guess p matches no word of wl.
RejectsAll(p, wl) == \A k \in 1..Len(wl) : ~match(p, wl[k])

\* C18: a dictionary constructed from an empty list, and a dictionary
\* returned by a prune that rejects every word, has length 0 and word size 0
\* and its most likely word is None.
C18_ExhaustedIsAValue ==
    /\ (Constructed /\ raw_words = <<>>) => Exhausted(word_list)
    /\ (pc = "pruned" /\ RejectsAll(parts, word_list)) => Exhausted(pruned)
    /\ (pc = "filtered" /\ word_list = <<>>) => Exhausted(word_list)

\* A prune rejected every word of a dictionary that has words.
C18_Witness ==
    /\ pc = "pruned"
    /\ word_list # <<>>
    /\ RejectsAll(parts, word_list)
    /\ pruned = <<>>

\* C19: once the dictionary has no word, a prune of it by any guess, of any
\* length, returns a dictionary of no word, and the session's dictionary
\* stays without words.
C19_EmptyStaysEmpty ==
    [][__len__(word_list) = 0 =>
         /\ __len__(word_list') = 0
         /\ Pruning => __len__(pruned') = 0]_vars

\* A dictionary of two-letter words was pruned to nothing and then pruned by
\* a guess of three letters.
C19_Witness ==
    /\ pc \in {"pruned", "filtered"}
    /\ raw_words # <<>>
    /\ Len(raw_words[1]) = 2
    /\ word_list = <<>>
    /\ Len(parts) = 3
    /\ pruned = <<>>

\* C20: a dictionary constructed with already_ranked true holds the input
\* words in upper case in the order given, whatever their scores.
C20_AlreadyRankedKeptAsGiven ==
    (Constructed /\ already_ranked_arg) => word_list = UpperInput

\* A list given as ranked, in lower case in part and highest score first.
C20_Witness ==
    /\ Constructed
    /\ already_ranked_arg
    /\ raw_words = <<<<"b", "a">>, <<"A", "A">>>>
    /\ word_list = <<<<"B", "A">>, <<"A", "A">>>>
    /\ ~Ascending(word_list)

----------------------------------------------------------------------------
(* Properties of the constructors and of the hosts. *)

\* The Guess constructor has returned or raised.
GuessConstructed == pc \in {"guess_built", "guess_raised"}

\* C21: constructing a Guess raises ValueError whenever some pair's letter is
\* not exactly one character; otherwise the Guess holds the pairs in order,
\* each letter in upper case with its response, and its str() is the guess
\* word in upper case.
C21_GuessValidatesLetters ==
    GuessConstructed =>
        IF \E k \in 1..Len(call_args) : Len(call_args[k][1]) # 1
        THEN raised = "ValueError"
        ELSE /\ raised = "none"
             /\ parts = [k \in 1..Len(call_args) |->
                            <<upper_char(call_args[k][1]), call_args[k][2]>>]
             /\ GuessStr(parts) = [k \in 1..Len(call_args) |-> upper_char(call_args[k][1])]

\* The response a symbol stands for.
SignalOf == [G |-> CORRECT, Y |-> ELSEWHERE, B |-> INCORRECT]

\* C22: convert_to_guess raises ValueError, and constructs no Guess, when the
\* word and the response string differ in length or a symbol is not G, Y or
\* B; otherwise it returns the Guess whose i-th pair is the word's i-th
\* letter with the response that the i-th symbol stands for.
C22_ConvertValidatesInput ==
    pc \in {"converted", "convert_raised"} =>
        LET w == call_args[1]
            gyb == call_args[2]
        IN  IF \/ Len(w) # Len(gyb)
               \/ \E i \in 1..Len(gyb) : gyb[i] \notin DOMAIN SignalOf
            THEN raised = "ValueError" /\ parts = None
            ELSE /\ raised = "none"
                 /\ parts = [i \in 1..Len(w) |-> <<w[i], SignalOf[gyb[i]]>>]

\* A word was converted with a response of two different symbols.
C22_Witness ==
    /\ pc = "converted"
    /\ call_args = <<<<"A", "B">>, <<"Y", "B">>>>
    /\ parts = <<<<"A", ELSEWHERE>>, <<"B", INCORRECT>>>>

\* C23: Dictionary.official raises RuntimeError when the download function
\* returns an empty list or None; otherwise it returns a ranked Dictionary of
\* exactly the downloaded words, as many as were downloaded.
C23_OfficialRefusesEmptyDownload ==
    pc \in {"official", "official_raised"} =>
        IF call_args = None \/ call_args = <<>>
        THEN raised = "RuntimeError" /\ word_list = None
        ELSE /\ raised = "none"
             /\ __len__(word_list) = Len(call_args)
             /\ Ascending(word_list)
             /\ \E f \in Orders(Len(call_args)) :
                  word_list = [k \in 1..Len(call_args) |-> upper(call_args[f[k]])]

\* The tests' lower-case download became a dictionary of three words.
C23_Witness ==
    /\ pc = "official"
    /\ call_args = abc_def_ghi
    /\ __len__(word_list) = 3
    /\ get_most_likely_word(word_list) = ABC

\* The Wordle host asks for the response to current_guess.
WordlePrompting == pc = "wordle_prompt"

\* The Wordle host accepts the user's response in this step of its loop.
WordleRoundPlayed == WordlePrompting /\ valid_gyb_values(current_guess, call_args')

\* The guess that the accepted response makes of current_guess.
RoundGuess ==
    [i \in 1..Len(current_guess) |->
        <<current_guess[i], SignalOf[upper_char(call_args'[i])]>>]

\* C24: each round of the Wordle host prunes the dictionary by the response
\* to the current guess and takes the most likely word of the result as the
\* next guess; the host asks for a response only while the dictionary has
\* words, and as soon as a prune leaves none it reports so and asks no more,
\* so it never asks for the response to a guess taken from an empty
\* dictionary.
C24_WordleLoopStopsWhenEmpty ==
    [][/\ WordleRoundPlayed =>
            /\ parts' = RoundGuess
            /\ word_list' = Matching(word_list, RoundGuess)
            /\ current_guess' = get_most_likely_word(word_list')
            /\ pc' = IF word_list' = <<>> THEN "wordle_done" ELSE "wordle_prompt"
       /\ WordlePrompting' =>
            /\ word_list' # <<>>
            /\ current_guess' # None
            /\ current_guess' = get_most_likely_word(word_list')
       /\ pc' = "wordle_done" => word_list' = <<>>]_vars

\* A round left the dictionary without words and the host reported it.
C24_Witness ==
    /\ pc = "wordle_done"
    /\ rounds >= 1
    /\ raw_words # <<>>
    /\ word_list = <<>>
    /\ current_guess = None
    /\ parts # <<>>

\* The feedback the user's response gives on the word w, letter by letter.
FeedbackOn(w) ==
    [i \in 1..Len(w) |-> <<w[i], SignalOf[upper_char(call_args'[i])]>>]

\* The user's response has a signal that is not G.
NotAllCorrect == \E i \in 1..Len(call_args') : upper_char(call_args'[i]) # "G"

\* C27: feedback over a word's own letters with some signal that is not
\* CORRECT never matches that word, so a round whose response is not all
\* CORRECT strictly shortens the dictionary, and the number of such rounds
\* plus the length of the dictionary never exceeds the number of words the
\* host started with.
C27_EveryRoundMakesProgress ==
    [][/\ (WordleRoundPlayed /\ NotAllCorrect) =>
            /\ \A k \in 1..Len(word_list) :
                 ~match(Guess(FeedbackOn(word_list[k])), word_list[k])
            /\ Len(word_list') < Len(word_list)
            /\ rounds' = rounds + 1
       /\ pc' \in {"wordle_prompt", "wordle_done"} =>
            rounds' + Len(word_list') <= Len(raw_words')]_vars

C27_Witness ==
    /\ pc = "wordle_done"
    /\ rounds = Len(raw_words)
    /\ rounds >= 2
    /\ word_list = <<>>

\* The Quordle host has read an input that passes its tests.
QuordleRoundAccepted ==
    pc = "quordle_input" /\ valid_inputs(call_args, quordle_word_size)

\* The feedback of the k-th response on the shared guess.
QuadGuess(k) ==
    [i \in 1..Len(current_guess) |->
        <<current_guess[i], SignalOf[upper_char(call_args[k][i])]>>]

\* C28: an input that passes the Quordle host's tests has every response as
\* long as the current guess, so that no ValueError is raised in the round
\* and the four dictionaries are either all replaced by their prunes or all
\* left as they were.
C28_AcceptedResponsesFitTheGuess ==
    [][QuordleRoundAccepted =>
         /\ \A k \in 1..Len(call_args) : Len(call_args[k]) = Len(current_guess)
         /\ raised' # "ValueError"
         /\ \/ \A k \in 1..num_dicts : dicts'[k] = Matching(dicts[k], QuadGuess(k))
            \/ dicts' = dicts]_vars

\* C26: the Quordle host takes exhaustion as a normal outcome: whenever the
\* next guess is computed a dictionary has been chosen, also after a round
\* that empties all four dictionaries and with an empty download, so that
\* neither a missing dictionary nor a None guess is ever dereferenced
\* (no AttributeError, no TypeError) and the guess at the prompt is a word.
C26_ExhaustionIsANormalOutcome ==
    /\ raised \notin {"TypeError", "AttributeError"}
    /\ pc \in {"quordle_prompt", "quordle_input"} =>
         /\ current_guess # None
         /\ \E k \in 1..num_dicts : __len__(dicts[k]) > 0

\* The k-th of the dictionaries ds is the smallest that is not empty, the
\* first of them among those of equal length.
SmallestNonEmpty(ds, k) ==
    /\ Len(ds[k]) > 0
    /\ \A j \in 1..Len(ds) :
         Len(ds[j]) > 0 =>
            \/ Len(ds[k]) < Len(ds[j])
            \/ Len(ds[k]) = Len(ds[j]) /\ k <= j

\* C25: after every round on an accepted input each dictionary is replaced
\* by its prune under its own response for the shared guess, and the next
\* shared guess is the most likely word of the smallest dictionary that is
\* not empty, the lowest-placed among those of equal length; an empty
\* dictionary is never the one chosen.
C25_NextGuessFromSmallestDictionary ==
    [][QuordleRoundAccepted =>
         /\ \A k \in 1..num_dicts :
              /\ Len(call_args[k]) = Len(current_guess)
              /\ dicts'[k] = Matching(dicts[k], QuadGuess(k))
         /\ \E k \in 1..num_dicts :
              /\ SmallestNonEmpty(dicts', k)
              /\ current_guess' = get_most_likely_word(dicts'[k])
              /\ current_guess' # None]_vars

====
